---- MODULE Spec2Model ----
(***************************************************************************)
(* Verification model of AutoFixMark: the KofamScan hit selection          *)
(* (app/kofamscan_parser.py, app/kofam_parser.py) and the pathway          *)
(* definition evaluator (app/predict_pathways.py).                         *)
(*                                                                         *)
(* Text is modelled as sequences of code points, so that str.rstrip,       *)
(* str.split, float() and sorted() are computed, not assumed.  Floats are  *)
(* modelled by small integers and min_score_ratio by a fraction <<p, q>>   *)
(* (q > 0); <<>> stands for None.  For the magnitudes used here the exact  *)
(* rational comparison and the IEEE comparison of the code agree.          *)
(***************************************************************************)
EXTENDS Integers, Sequences, FiniteSets, TLC

VARIABLES
    tool,              \* "kofamscan" (kofamscan_parser.py) or "kofam" (kofam_parser.py)
    pc,                \* position of the running operation
    hits,              \* determine_selected_indices: the hits of one gene
    top_n,             \* --top
    min_score_ratio,   \* --min-score-ratio: <<>> (None) or <<p, q>>
    selected_indices,  \* result of determine_selected_indices
    defn,              \* evaluate: the rule node
    ids,               \* evaluate / main: the KO ids of the input
    ret,               \* evaluate: the returned value or the raised error
    pathway_list,      \* main: definitions["pathway_list"]
    out,               \* main: the lines held by the output file
    content,           \* group_by_genes: result.splitlines()
    pos,               \* group_by_genes: number of lines consumed
    gene_data,         \* the insertion-ordered dict gene -> hits
    header_line,       \* parse_tsv_content: the retained header
    ko_lines           \* result of format_ko_output

vars == <<tool, pc, hits, top_n, min_score_ratio, selected_indices, defn, ids,
          ret, pathway_list, out, content, pos, gene_data, header_line, ko_lines>>

selVars   == <<hits, top_n, min_score_ratio, selected_indices>>
evalVars  == <<defn, ids, ret>>
mainVars  == <<pathway_list, out>>
groupVars == <<content, pos, header_line>>

\* Values of the variables an operation does not use.
IdleSel   == hits = <<>> /\ top_n = 1 /\ min_score_ratio = <<>> /\ selected_indices = {}
IdleEval  == defn = [type |-> "all_of"] /\ ids = {} /\ ret = [raised |-> FALSE, value |-> FALSE, msg |-> <<>>]
IdleMain  == pathway_list = <<>> /\ out = <<>>
IdleGroup == content = <<>> /\ pos = 0 /\ header_line = <<>>
IdleKo    == gene_data = <<>> /\ ko_lines = <<>>

Range(s) == {s[i] : i \in DOMAIN s}

SeqsUpTo(S, n) == UNION {[1..k -> S] : k \in 0..n}

(***************************************************************************)
(* Bounds                                                                  *)
(***************************************************************************)
MaxHits == 3      \* hits of one gene
MaxTop == 3       \* largest --top
MaxIdLen == 2     \* ids of a leaf
MaxChildren == 2  \* children of a composite
MaxMin == 3       \* largest "min"
MaxRules == 2     \* rules of a library
MaxLines == 3     \* lines of an input file
MaxGenes == 2     \* genes of a GeneGroup
MaxGeneHits == 2  \* hits per gene of a GeneGroup

(***************************************************************************)
(* Text                                                                    *)
(***************************************************************************)
TAB == 9
SPACE == 32
HASH == 35
STAR == 42
MINUS == 45

\* KO labels as code points: "K1", "K2", "K10"
K1 == <<75, 49>>
K2 == <<75, 50>>
K10 == <<75, 49, 48>>

(***************************************************************************)
(* determine_selected_indices                                              *)
(***************************************************************************)
None == <<>>

\* score / thrshld >= min_score_ratio, for thrshld # 0
RatioGE(score, thrshld, r) ==
    IF thrshld > 0 THEN score * r[2] >= r[1] * thrshld
                   ELSE score * r[2] <= r[1] * thrshld

\* kofamscan_parser.py lines 80-83
passes_ratio_check(hit, msr) ==
    IF msr # None /\ hit.thrshld > 0
    THEN RatioGE(hit.score, hit.thrshld, msr)
    ELSE TRUE

has_asterisk(hs) == \E i \in 1..Len(hs) : hs[i].asterisk

\* Indices are 0-based as in the code: hit number index is hs[index + 1].
RECURSIVE SelectLoop(_, _, _, _, _)
SelectLoop(hs, n, msr, index, acc) ==
    IF index >= Len(hs) THEN acc
    ELSE LET hit == hs[index + 1]
             prc == passes_ratio_check(hit, msr)
             sel == hit.asterisk \/ (~has_asterisk(hs) /\ index < n /\ prc)
         IN SelectLoop(hs, n, msr, index + 1,
                       IF sel THEN acc \cup {index} ELSE acc)

determine_selected_indices_fallback(hs, n, msr) ==
    {i \in 0..(Len(hs) - 1) :
        \/ hs[i + 1].asterisk
        \/ /\ ~has_asterisk(hs)
           /\ passes_ratio_check(hs[i + 1], msr)
           /\ Cardinality({j \in 0..(i - 1) : passes_ratio_check(hs[j + 1], msr)}) < n}

determine_selected_indices_rank(hs, n, msr) ==
    {i \in 0..(Len(hs) - 1) :
        \/ hs[i + 1].asterisk
        \/ i < n /\ passes_ratio_check(hs[i + 1], msr)}

determine_selected_indices(hs, n, msr) == SelectLoop(hs, n, msr, 0, {})

\* kofam_parser.py: the same policy without the ratio check
RECURSIVE SelectLoopKofam(_, _, _, _)
SelectLoopKofam(hs, n, index, acc) ==
    IF index >= Len(hs) THEN acc
    ELSE LET hit == hs[index + 1]
             sel == hit.asterisk \/ (~has_asterisk(hs) /\ index < n)
         IN SelectLoopKofam(hs, n, index + 1,
                            IF sel THEN acc \cup {index} ELSE acc)

determine_selected_indices_kofam(hs, n) == SelectLoopKofam(hs, n, 0, {})

Selected(t, hs, n, msr) ==
    IF t = "kofamscan" THEN determine_selected_indices(hs, n, msr)
                       ELSE determine_selected_indices_kofam(hs, n)

Tools == {"kofamscan", "kofam"}
Thresholds == {-10, 0, 10}
Scores == {5, 20}
Ratios == {None, <<1, 2>>, <<9, 10>>}
TopNs == (-1)..MaxTop
HitSet == [asterisk : BOOLEAN, ko : {K1}, thrshld : Thresholds, score : Scores]

InitSelect ==
    /\ tool \in Tools
    /\ pc = "select"
    /\ hits \in SeqsUpTo(HitSet, MaxHits)
    /\ top_n \in TopNs
    /\ min_score_ratio \in (IF tool = "kofamscan" THEN Ratios ELSE {None})
    /\ selected_indices = {}
    /\ IdleEval /\ IdleMain /\ IdleGroup /\ IdleKo

Select ==
    /\ pc = "select"
    /\ selected_indices' = Selected(tool, hits, top_n, min_score_ratio)
    /\ pc' = "selected"
    /\ UNCHANGED <<tool, hits, top_n, min_score_ratio, evalVars, mainVars,
                   groupVars, gene_data, ko_lines>>

NextSelect == Select

SpecSelect == InitSelect /\ [][NextSelect]_vars

Marked(hs) == {i \in 0..(Len(hs) - 1) : hs[i + 1].asterisk}

\* C1: when at least one hit of the gene is marked, the selected indices are
\* exactly the indices of the marked hits, whatever top_n and min_score_ratio.
C1_MarkedExactly ==
    (pc = "selected" /\ Marked(hits) # {}) => selected_indices = Marked(hits)

\* an unmarked hit at index 0 is left out because of a later marked hit,
\* although it is within top_n and passes the ratio check
C1_Witness ==
    /\ pc = "selected"
    /\ Len(hits) >= 2
    /\ ~hits[1].asterisk
    /\ hits[Len(hits)].asterisk
    /\ top_n >= 1
    /\ passes_ratio_check(hits[1], min_score_ratio)
    /\ 0 \notin selected_indices
    /\ (Len(hits) - 1) \in selected_indices

\* C2: with no marked hit, the selected indices are exactly the indices below
\* top_n (and below len(hits)) whose hit passes the ratio check.
C2_RankExactly ==
    (pc = "selected" /\ Marked(hits) = {}) =>
        selected_indices =
            {i \in 0..(Len(hits) - 1) :
                i < top_n /\ passes_ratio_check(hits[i + 1], min_score_ratio)}

\* top_n = 1, the first hit fails the ratio check, the second would pass:
\* nothing is selected
C2_Witness ==
    /\ pc = "selected"
    /\ tool = "kofamscan"
    /\ Marked(hits) = {}
    /\ top_n = 1
    /\ Len(hits) >= 2
    /\ ~passes_ratio_check(hits[1], min_score_ratio)
    /\ passes_ratio_check(hits[2], min_score_ratio)
    /\ selected_indices = {}

\* C3: the ratio check passes when min_score_ratio is not supplied or the
\* threshold is 0.0, and otherwise, for any non-zero threshold, positive or
\* negative, exactly when score / threshold >= min_score_ratio.  Observed on
\* the unmarked hits below top_n of a gene without marked hit.
C3_RatioCheckAnyThreshold ==
    (pc = "selected" /\ tool = "kofamscan" /\ Marked(hits) = {}) =>
        \A i \in 0..(Len(hits) - 1) :
            i < top_n =>
                ((i \in selected_indices) <=>
                    (\/ min_score_ratio = None
                     \/ hits[i + 1].thrshld = 0
                     \/ RatioGE(hits[i + 1].score, hits[i + 1].thrshld,
                                min_score_ratio)))

(***************************************************************************)
(* evaluate (predict_pathways.py)                                          *)
(*                                                                         *)
(* A node is a record holding the keys of the JSON object: "type" (absent  *)
(* when the key is missing), "id_list", "list", "min".  A call either      *)
(* returns a boolean or raises ValueError with a message made of the       *)
(* shape of the node and its type.                                         *)
(***************************************************************************)
NoType == "None"

Return(b) == [raised |-> FALSE, value |-> b, msg |-> <<>>]
Raise(kind, t) == [raised |-> TRUE, value |-> FALSE, msg |-> <<kind, t>>]

Unknown_false(kind, t) == Return(FALSE)

\* lines 46 and 58: raise ValueError(f"Unknown leaf type: {t}")
Unknown(kind, t) == Raise(kind, t)

\* defn.get("type")
GetType(d) == IF "type" \in DOMAIN d THEN d.type ELSE NoType

\* defn.get("min", n)
GetMin(d, n) == IF "min" \in DOMAIN d THEN d.min ELSE n

\* defn.get("list", [])
GetList(d) == IF "list" \in DOMAIN d THEN d.list ELSE <<>>

LeafCount_missing(id_list, s, i, n) == Cardinality({k \in 1..Len(id_list) : id_list[k] \notin s})

LeafCount_distinct(id_list, s, i, n) == Cardinality(Range(id_list) \cap s)

\* sum(1 for k in id_list if k in ids)
RECURSIVE LeafCount(_, _, _, _)
LeafCount(id_list, s, i, n) ==
    IF i > Len(id_list) THEN n
    ELSE LeafCount(id_list, s, i + 1, IF id_list[i] \in s THEN n + 1 ELSE n)

RECURSIVE LeafAll(_, _, _)
LeafAll(id_list, s, i) ==
    IF i > Len(id_list) THEN TRUE
    ELSE IF id_list[i] \notin s THEN FALSE
    ELSE LeafAll(id_list, s, i + 1)

RECURSIVE LeafAny(_, _, _)
LeafAny(id_list, s, i) ==
    IF i > Len(id_list) THEN FALSE
    ELSE IF id_list[i] \in s THEN TRUE
    ELSE LeafAny(id_list, s, i + 1)

RECURSIVE evaluate(_, _)
RECURSIVE AllSubs(_, _, _)
RECURSIVE AnySubs(_, _, _)
RECURSIVE CountSubs(_, _, _, _)

\* all(evaluate(sub, ids) for sub in subs): stops at the first false child,
\* an exception raised by a child reached before that propagates
AllSubs(subs, s, i) ==
    IF i > Len(subs) THEN Return(TRUE)
    ELSE LET r == evaluate(subs[i], s)
         IN IF r.raised THEN r
            ELSE IF ~r.value THEN Return(FALSE)
            ELSE AllSubs(subs, s, i + 1)

\* any(evaluate(sub, ids) for sub in subs): stops at the first true child
AnySubs(subs, s, i) ==
    IF i > Len(subs) THEN Return(FALSE)
    ELSE LET r == evaluate(subs[i], s)
         IN IF r.raised THEN r
            ELSE IF r.value THEN Return(TRUE)
            ELSE AnySubs(subs, s, i + 1)

\* sum(1 for sub in subs if evaluate(sub, ids)): evaluates every child
CountSubs(subs, s, i, n) ==
    IF i > Len(subs) THEN [raised |-> FALSE, value |-> n, msg |-> <<>>]
    ELSE LET r == evaluate(subs[i], s)
         IN IF r.raised THEN r
            ELSE CountSubs(subs, s, i + 1, IF r.value THEN n + 1 ELSE n)

evaluate(d, s) ==
    LET t == GetType(d)
    IN IF "id_list" \in DOMAIN d
       THEN LET id_list == d.id_list
            IN IF t = "all_of" THEN Return(LeafAll(id_list, s, 1))
               ELSE IF t = "one_of" THEN Return(LeafAny(id_list, s, 1))
               ELSE IF t = "at_least"
                    THEN LET required == GetMin(d, Len(id_list))
                         IN Return(LeafCount(id_list, s, 1, 0) >= required)
               ELSE Unknown("leaf", t)
       ELSE LET subs == GetList(d)
            IN IF t = "all_of" THEN AllSubs(subs, s, 1)
               ELSE IF t = "one_of" THEN AnySubs(subs, s, 1)
               ELSE IF t = "at_least"
                    THEN LET required == GetMin(d, Len(subs))
                             c == CountSubs(subs, s, 1, 0)
                         IN IF c.raised THEN c
                            ELSE Return(c.value >= required)
               ELSE Unknown("composite", t)

\* The rule trees of the model
KnownTypes == {"all_of", "one_of", "at_least"}
Types == KnownTypes \cup {"bogus", NoType}
Labels == {K1, K2}
Mins == 0..MaxMin

WithType(t, r) == IF t = NoType THEN r ELSE ("type" :> t) @@ r

LeafNodes(n) ==
    {WithType(t, [id_list |-> l]) : t \in Types, l \in SeqsUpTo(Labels, n)}
    \cup {[type |-> "at_least", id_list |-> l, min |-> m] :
            l \in SeqsUpTo(Labels, n), m \in Mins}

\* The children of the composites: leaves that test one id, leaves that are
\* constant, counting leaves, leaves with an unrecognized or missing
\* combinator, and a composite.
ChildNodes ==
    { [type |-> "all_of", id_list |-> <<K1>>],
      [type |-> "all_of", id_list |-> <<K1, K2>>],
      [type |-> "all_of", id_list |-> <<>>],
      [type |-> "one_of", id_list |-> <<K2>>],
      [type |-> "one_of", id_list |-> <<K1, K2>>],
      [type |-> "one_of", id_list |-> <<>>],
      [type |-> "at_least", id_list |-> <<K1, K2>>, min |-> 1],
      [type |-> "at_least", id_list |-> <<K1, K2>>],
      [type |-> "at_least", id_list |-> <<K1, K1>>, min |-> 2],
      [type |-> "bogus", id_list |-> <<K1>>],
      [id_list |-> <<>>],
      [type |-> "one_of", list |-> <<[type |-> "all_of", id_list |-> <<K1>>],
                                     [type |-> "bogus", list |-> <<>>]>>] }

CompositeNodes(n) ==
    {WithType(t, [list |-> c]) : t \in Types, c \in SeqsUpTo(ChildNodes, n)}
    \cup {[type |-> "at_least", list |-> c, min |-> m] :
            c \in SeqsUpTo(ChildNodes, n), m \in Mins}
    \cup {[type |-> t] : t \in Types}

\* composites of composites, to exercise the recursion below the children
DeepNodes ==
    {[type |-> t, list |-> <<c>>] : t \in KnownTypes, c \in CompositeNodes(1)}

RuleNodes == LeafNodes(MaxIdLen) \cup CompositeNodes(MaxChildren) \cup DeepNodes

InitEval ==
    /\ tool = "predict_pathways"
    /\ pc = "evaluate"
    /\ defn \in RuleNodes
    /\ ids \in SUBSET Labels
    /\ ret = Return(FALSE)
    /\ IdleSel /\ IdleMain /\ IdleGroup /\ IdleKo

Evaluate ==
    /\ pc = "evaluate"
    /\ ret' = evaluate(defn, ids)
    /\ pc' = "evaluated"
    /\ UNCHANGED <<tool, defn, ids, selVars, mainVars, groupVars, gene_data, ko_lines>>

NextEval == Evaluate

SpecEval == InitEval /\ [][NextEval]_vars

\* every node of the tree carries a recognized combinator
RECURSIVE WellFormed(_)
WellFormed(d) ==
    /\ GetType(d) \in KnownTypes
    /\ ("id_list" \notin DOMAIN d) =>
            \A i \in 1..Len(GetList(d)) : WellFormed(GetList(d)[i])

\* the reference semantics of a rule tree over a label set
RECURSIVE Holds(_, _)
Holds(d, s) ==
    IF "id_list" \in DOMAIN d
    THEN LET found == {i \in 1..Len(d.id_list) : d.id_list[i] \in s}
         IN CASE d.type = "all_of" -> found = 1..Len(d.id_list)
              [] d.type = "one_of" -> found # {}
              [] d.type = "at_least" ->
                    Cardinality(found) >=
                        (IF "min" \in DOMAIN d THEN d.min ELSE Len(d.id_list))
    ELSE LET subs == IF "list" \in DOMAIN d THEN d.list ELSE <<>>
             true == {i \in 1..Len(subs) : Holds(subs[i], s)}
         IN CASE d.type = "all_of" -> true = 1..Len(subs)
              [] d.type = "one_of" -> true # {}
              [] d.type = "at_least" ->
                    Cardinality(true) >=
                        (IF "min" \in DOMAIN d THEN d.min ELSE Len(subs))

\* C4: on a rule tree whose nodes all carry a recognized combinator, evaluate
\* raises nothing and returns the boolean of the reference semantics (leaf
\* and composite, all_of / one_of / at_least counted against min).
C4_EvaluateMatchesSemantics ==
    (pc = "evaluated" /\ WellFormed(defn)) =>
        (~ret.raised /\ ret.value = Holds(defn, ids))

\* an at_least composite with an explicit min over two leaves, one of which
\* repeats an id, evaluated to true
C4_Witness ==
    /\ pc = "evaluated"
    /\ WellFormed(defn)
    /\ "id_list" \notin DOMAIN defn
    /\ defn.type = "at_least"
    /\ "min" \in DOMAIN defn
    /\ defn.min = 1
    /\ Len(GetList(defn)) = 2
    /\ ~Holds(defn.list[1], ids)
    /\ Holds(defn.list[2], ids)
    /\ ret = Return(TRUE)

AsAllOf(d) == [k \in DOMAIN d |-> IF k = "type" THEN "all_of" ELSE d[k]]

\* C5: an at_least node that omits min evaluates as the all_of node with the
\* same id_list or the same children, for every label set.
C5_DefaultMinIsAllOf ==
    (pc = "evaluated" /\ GetType(defn) = "at_least" /\ "min" \notin DOMAIN defn) =>
        ret = evaluate(AsAllOf(defn), ids)

\* C6: a node whose combinator is not all_of, one_of or at_least (or is
\* missing) yields no verdict: evaluate raises, and the error names the shape
\* and the combinator of that node.
C6_UnknownTypeRaises ==
    (pc = "evaluated" /\ GetType(defn) \notin KnownTypes) =>
        /\ ret.raised
        /\ ret.msg = <<IF "id_list" \in DOMAIN defn THEN "leaf" ELSE "composite",
                       GetType(defn)>>

\* a composite with a missing combinator and an empty child list raised
C6_Witness ==
    /\ pc = "evaluated"
    /\ "type" \notin DOMAIN defn
    /\ "id_list" \notin DOMAIN defn
    /\ GetList(defn) = <<>>
    /\ ret.raised

(***************************************************************************)
(* predict_pathways.main: the verdict file                                 *)
(*                                                                         *)
(* out is the content of the output file once it is closed.  The file is   *)
(* opened (and truncated) before the first rule is evaluated; the with     *)
(* block closes it, flushing what was written, also when evaluate raises.  *)
(***************************************************************************)
MainDefs ==
    { [type |-> "all_of", id_list |-> <<K1>>],
      [type |-> "one_of", list |-> <<[type |-> "all_of", id_list |-> <<K1, K2>>],
                                     [type |-> "at_least", id_list |-> <<K2>>]>>],
      [type |-> "bogus", id_list |-> <<K1>>],
      [type |-> "all_of", list |-> <<[type |-> "one_of", id_list |-> <<K2>>],
                                     [list |-> <<>>]>>] }

Rules == [pathway_name : {"P1", "P2"}, definition : MainDefs]

\* an output file left by an earlier run
OldOut == <<<<"P0", "Y">>>>

InitMain ==
    /\ tool = "predict_pathways"
    /\ pc = "main"
    /\ pathway_list \in SeqsUpTo(Rules, MaxRules)
    /\ ids \in SUBSET Labels
    /\ out \in {<<>>, OldOut}
    /\ defn = [type |-> "all_of"]
    /\ ret = Return(FALSE)
    /\ IdleSel /\ IdleGroup /\ IdleKo

\* line 96: open(output_file_path, 'w')
OpenOutput ==
    /\ pc = "main"
    /\ out' = <<>>
    /\ pc' = "writing"
    /\ UNCHANGED <<tool, selVars, evalVars, pathway_list, groupVars, gene_data, ko_lines>>

\* lines 97-101, one iteration in which evaluate returns
WriteVerdict ==
    /\ pc = "writing"
    /\ Len(out) < Len(pathway_list)
    /\ LET pw == pathway_list[Len(out) + 1]
           ok == evaluate(pw.definition, ids)
       IN /\ ~ok.raised
          /\ out' = Append(out, <<pw.pathway_name, IF ok.value THEN "Y" ELSE "N">>)
          /\ defn' = pw.definition
          /\ ret' = ok
    /\ UNCHANGED <<tool, pc, selVars, ids, pathway_list, groupVars, gene_data, ko_lines>>

\* line 99 raises: the exception leaves the with block and ends the process
EvaluateRaises ==
    /\ pc = "writing"
    /\ Len(out) < Len(pathway_list)
    /\ LET pw == pathway_list[Len(out) + 1]
           ok == evaluate(pw.definition, ids)
       IN /\ ok.raised
          /\ defn' = pw.definition
          /\ ret' = ok
    /\ pc' = "aborted"
    /\ UNCHANGED <<tool, selVars, ids, mainVars, groupVars, gene_data, ko_lines>>

\* the loop is exhausted and the with block closes the file
CloseOutput ==
    /\ pc = "writing"
    /\ Len(out) = Len(pathway_list)
    /\ pc' = "written"
    /\ UNCHANGED <<tool, selVars, evalVars, mainVars, groupVars, gene_data, ko_lines>>

NextMain == OpenOutput \/ WriteVerdict \/ EvaluateRaises \/ CloseOutput

SpecMain == InitMain /\ [][NextMain]_vars

\* C7: when the run has ended, the output file holds a verdict line for
\* every rule of pathway_list or no verdict line at all.
C7_AllOrNothing ==
    (pc \in {"written", "aborted"}) => (Len(out) = Len(pathway_list) \/ out = <<>>)

(***************************************************************************)
(* group_by_genes / parse_tsv_content                                      *)
(***************************************************************************)
\* the whitespace of the model's alphabet
Whitespace == {TAB, SPACE}

\* str.rstrip(): drops the trailing whitespace, tabs included
RECURSIVE rstrip(_)
rstrip(s) ==
    IF s = <<>> THEN s
    ELSE IF s[Len(s)] \in Whitespace THEN rstrip(SubSeq(s, 1, Len(s) - 1))
    ELSE s

\* str.split('\t'): every delimiter ends a field, empty fields are kept
RECURSIVE SplitFrom(_, _, _, _)
SplitFrom(s, i, cur, acc) ==
    IF i > Len(s) THEN Append(acc, cur)
    ELSE IF s[i] = TAB THEN SplitFrom(s, i + 1, <<>>, Append(acc, cur))
    ELSE SplitFrom(s, i + 1, Append(cur, s[i]), acc)

split(s) == SplitFrom(s, 1, <<>>, <<>>)

\* '\t'.join(fields)
RECURSIVE join(_)
join(fields) ==
    IF Len(fields) = 0 THEN <<>>
    ELSE IF Len(fields) = 1 THEN fields[1]
    ELSE fields[1] \o <<TAB>> \o join(Tail(fields))

startswith(s, c) == Len(s) > 0 /\ s[1] = c

IsDigit(c) == c \in 48..57

RECURSIVE DigitsValue(_, _, _)
DigitsValue(s, i, acc) ==
    IF i > Len(s) THEN acc
    ELSE DigitsValue(s, i + 1, 10 * acc + (s[i] - 48))

\* float(s) on the numerals of the model's alphabet: an optional sign and at
\* least one digit; anything else raises ValueError
float(s) ==
    LET body == IF startswith(s, MINUS) THEN Tail(s) ELSE s
    IN IF body # <<>> /\ \A i \in 1..Len(body) : IsDigit(body[i])
       THEN [ok |-> TRUE,
             value |-> IF startswith(s, MINUS) THEN 0 - DigitsValue(body, 1, 0)
                       ELSE DigitsValue(body, 1, 0)]
       ELSE [ok |-> FALSE, value |-> 0]

\* float(columns[k]) if columns[k] else 0.0
FloatOrZero(f) == IF f # <<>> THEN float(f) ELSE [ok |-> TRUE, value |-> 0]

\* the filter of lines 28-40, on a line of result.splitlines()
Survives(raw) ==
    LET line == rstrip(raw)
    IN /\ ~startswith(line, HASH)
       /\ line # <<>>
       /\ Len(split(line)) >= 7

Columns(raw) == split(rstrip(raw))

\* float() raises on the threshold or the score (kofamscan_parser.py only)
ParseRaises(t, columns) ==
    /\ t = "kofamscan"
    /\ ~FloatOrZero(columns[4]).ok \/ ~FloatOrZero(columns[5]).ok

\* the Row (kofamscan_parser.py) or Hit (kofam_parser.py) of a kept line
RowOf(t, columns) ==
    IF t = "kofamscan"
    THEN [asterisk |-> columns[1] = <<STAR>>,
          original_columns |-> columns,
          ko |-> columns[3],
          gene |-> columns[2],
          thrshld |-> FloatOrZero(columns[4]).value,
          score |-> FloatOrZero(columns[5]).value]
    ELSE [asterisk |-> columns[1] = <<STAR>>,
          original_columns |-> columns,
          ko |-> columns[3],
          gene_name |-> columns[2]]

Keys(gd) == {gd[i].gene : i \in 1..Len(gd)}

PutHit_front(gd, gene, hit) ==
    IF gene \in Keys(gd)
    THEN [i \in 1..Len(gd) |->
            IF gd[i].gene = gene
            THEN [gene |-> gene, hits |-> <<hit>> \o gd[i].hits]
            ELSE gd[i]]
    ELSE Append(gd, [gene |-> gene, hits |-> <<hit>>])

\* lines 51-62: the dict keeps its keys in insertion order; a new gene is
\* entered last, a hit is appended to the list of its gene
PutHit(gd, gene, hit) ==
    IF gene \in Keys(gd)
    THEN [i \in 1..Len(gd) |->
            IF gd[i].gene = gene
            THEN [gene |-> gene, hits |-> Append(gd[i].hits, hit)]
            ELSE gd[i]]
    ELSE Append(gd, [gene |-> gene, hits |-> <<hit>>])

\* fields and lines of the model's input files
empty == <<>>
star == <<STAR>>
g1 == <<103, 49>>
g2 == <<103, 50>>
n5 == <<53>>
n10 == <<49, 48>>
n20 == <<50, 48>>
neg10 == <<MINUS, 49, 48>>
ev == <<101>>
dsc == <<100>>
nan_x == <<120>>
hdr == <<HASH, 103>>

FieldLines ==
    { <<star, g1, K1, n10, n20, ev, dsc>>,
      <<empty, g1, K2, n10, n5, ev, dsc>>,
      <<empty, g2, K1, empty, n5, ev, dsc>>,
      <<star, g2, K10, neg10, n20, ev, dsc, empty>>,
      <<empty, g2, K2, n10, n20, ev, empty>>,
      <<empty, g1, K1, n10, n20, ev>>,
      <<empty, g1, K1, nan_x, n20, ev, dsc>>,
      <<hdr, g1, K1, n10, n20, ev, dsc>>,
      <<hdr>>,
      <<empty>>,
      <<<<SPACE>>, empty>> }

Lines == {join(f) : f \in FieldLines}

InitGroup ==
    /\ tool \in Tools
    /\ pc = "grouping"
    /\ content \in SeqsUpTo(Lines, MaxLines)
    /\ pos = 0
    /\ gene_data = <<>>
    /\ header_line = <<>>
    /\ ko_lines = <<>>
    /\ IdleSel /\ IdleEval /\ IdleMain

\* a comment line: skipped; parse_tsv_content retains the first one
GroupComment ==
    /\ pc = "grouping"
    /\ pos < Len(content)
    /\ LET line == rstrip(content[pos + 1])
       IN /\ startswith(line, HASH)
          /\ header_line' = IF tool = "kofam" /\ header_line = <<>>
                            THEN line ELSE header_line
    /\ pos' = pos + 1
    /\ UNCHANGED <<tool, pc, selVars, evalVars, mainVars, content, gene_data, ko_lines>>

\* a blank line or a line of fewer than 7 columns: skipped
GroupSkip ==
    /\ pc = "grouping"
    /\ pos < Len(content)
    /\ LET line == rstrip(content[pos + 1])
       IN /\ ~startswith(line, HASH)
          /\ line = <<>> \/ Len(split(line)) < 7
    /\ pos' = pos + 1
    /\ UNCHANGED <<tool, pc, selVars, evalVars, mainVars, content, header_line,
                   gene_data, ko_lines>>

\* a kept line: parsed and filed under its gene
GroupHit ==
    /\ pc = "grouping"
    /\ pos < Len(content)
    /\ Survives(content[pos + 1])
    /\ LET columns == Columns(content[pos + 1])
       IN /\ ~ParseRaises(tool, columns)
          /\ gene_data' = PutHit(gene_data, columns[2], RowOf(tool, columns))
    /\ pos' = pos + 1
    /\ UNCHANGED <<tool, pc, selVars, evalVars, mainVars, content, header_line, ko_lines>>

\* a kept line whose threshold or score is no numeral: float() raises
GroupRaises ==
    /\ pc = "grouping"
    /\ pos < Len(content)
    /\ Survives(content[pos + 1])
    /\ ParseRaises(tool, Columns(content[pos + 1]))
    /\ pc' = "raised"
    /\ UNCHANGED <<tool, selVars, evalVars, mainVars, groupVars, gene_data, ko_lines>>

\* line 64: return gene_data
GroupReturn ==
    /\ pc = "grouping"
    /\ pos = Len(content)
    /\ pc' = "grouped"
    /\ UNCHANGED <<tool, selVars, evalVars, mainVars, groupVars, gene_data, ko_lines>>

NextGroup == GroupComment \/ GroupSkip \/ GroupHit \/ GroupRaises \/ GroupReturn

SpecGroup == InitGroup /\ [][NextGroup]_vars

\* the columns of the surviving lines among the first n lines, in file order
RECURSIVE Survivors(_, _)
Survivors(lines, n) ==
    IF n = 0 THEN <<>>
    ELSE IF Survives(lines[n])
         THEN Append(Survivors(lines, n - 1), Columns(lines[n]))
         ELSE Survivors(lines, n - 1)

FirstOf(surv, gene) ==
    CHOOSE i \in 1..Len(surv) :
        surv[i][2] = gene /\ \A j \in 1..(i - 1) : surv[j][2] # gene

OfGene(surv, gene) == SelectSeq(surv, LAMBDA c : c[2] = gene)

\* C8: the genes of the mapping are in order of their first surviving line,
\* and the hits of a gene are exactly the surviving lines of that gene, in
\* file order, each once; nothing is filed under another gene.
C8_OrderPreserved ==
    (pc \in {"grouping", "grouped"}) =>
        LET surv == Survivors(content, pos)
        IN /\ Keys(gene_data) = {surv[i][2] : i \in 1..Len(surv)}
           /\ \A i, j \in 1..Len(gene_data) :
                i < j => /\ gene_data[i].gene # gene_data[j].gene
                         /\ FirstOf(surv, gene_data[i].gene)
                                < FirstOf(surv, gene_data[j].gene)
           /\ \A i \in 1..Len(gene_data) :
                LET own == OfGene(surv, gene_data[i].gene)
                IN /\ Len(gene_data[i].hits) = Len(own)
                   /\ \A k \in 1..Len(own) :
                        gene_data[i].hits[k] = RowOf(tool, own[k])

\* three kept lines, of a first gene, of a second gene and of the first
\* gene again: two keys in that order, the first with its two hits in order
C8_Witness ==
    /\ pc = "grouped"
    /\ Len(content) = 3
    /\ Len(gene_data) = 2
    /\ gene_data[1].gene = g1
    /\ gene_data[2].gene = g2
    /\ Len(gene_data[1].hits) = 2
    /\ gene_data[1].hits[1].ko = K1
    /\ gene_data[1].hits[2].ko = K2

AllHits(gd) == {<<i, k>> : i \in 1..Len(gd), k \in 1..MaxLines + 1}

HitCount(gd, f) ==
    Cardinality({p \in AllHits(gd) :
        p[2] <= Len(gd[p[1]].hits) /\ gd[p[1]].hits[p[2]].original_columns = f})

\* the keep rule as the claim states it, on the line as read
ClaimKeeps(raw) ==
    /\ ~startswith(raw, HASH)
    /\ rstrip(raw) # <<>>
    /\ Len(split(raw)) >= 7

\* C9: a line is kept iff it is no comment, not blank and has at least 7
\* fields; each kept line becomes exactly one record whose raw_fields are all
\* the fields of the line, trailing empty fields included.
C9_KeepsAllFields ==
    (pc = "grouped") =>
        \A f \in {split(content[i]) : i \in 1..Len(content)}
                    \cup {Columns(content[i]) : i \in 1..Len(content)} :
            HitCount(gene_data, f) =
                Cardinality({i \in 1..Len(content) :
                                ClaimKeeps(content[i]) /\ split(content[i]) = f})

(***************************************************************************)
(* format_ko_output                                                        *)
(***************************************************************************)
\* a < b for str: by code point, a proper prefix first
RECURSIVE LessStr(_, _)
LessStr(a, b) ==
    IF b = <<>> THEN FALSE
    ELSE IF a = <<>> THEN TRUE
    ELSE IF a[1] # b[1] THEN a[1] < b[1]
    ELSE LessStr(Tail(a), Tail(b))

RECURSIVE Sorted_shortest_first(_)
Sorted_shortest_first(S) ==
    IF S = {} THEN <<>>
    ELSE LET m == CHOOSE x \in S :
                    \A y \in S \ {x} :
                        Len(x) < Len(y) \/ (Len(x) = Len(y) /\ LessStr(x, y))
         IN <<m>> \o Sorted_shortest_first(S \ {m})

\* sorted(unique_kos)
RECURSIVE Sorted(_)
Sorted(S) ==
    IF S = {} THEN <<>>
    ELSE LET m == CHOOSE x \in S : \A y \in S \ {x} : LessStr(x, y)
         IN <<m>> \o Sorted(S \ {m})

\* lines 132-139: the KOs of the selected indices of every gene
unique_kos(t, gd, n, msr) ==
    UNION {{gd[g].hits[i + 1].ko :
                i \in {j \in Selected(t, gd[g].hits, n, msr) : j < Len(gd[g].hits)}} :
           g \in 1..Len(gd)}

format_ko_output(t, gd, n, msr) == Sorted(unique_kos(t, gd, n, msr))

\* the rows of the model's GeneGroups: a marked hit, an unmarked hit that
\* passes the ratio 9/10 and an unmarked hit that fails it
KoKinds == {"marked", "passing", "failing"}

KoColumns(kind, g) ==
    CASE kind = "marked" -> <<star, g, K2, n10, n5, ev, dsc>>
      [] kind = "passing" -> <<empty, g, K10, n10, n20, ev, dsc>>
      [] kind = "failing" -> <<empty, g, K1, n10, n5, ev, dsc>>

GeneNames == <<g1, g2, <<103, 51>>, <<103, 52>>>>

\* the non-empty hit lists of one gene, by kind
KindLists == UNION {[1..m -> KoKinds] : m \in 1..MaxGeneHits}

\* the GeneGroup of the genes 1..Len(kinds), gene g with the hits kinds[g]
GeneGroup(t, kinds) ==
    [g \in 1..Len(kinds) |->
        [gene |-> GeneNames[g],
         hits |-> [i \in 1..Len(kinds[g]) |->
                        RowOf(t, KoColumns(kinds[g][i], GeneNames[g]))]]]

InitKo ==
    /\ tool \in Tools
    /\ pc = "format"
    /\ \E k \in 0..MaxGenes : \E kinds \in [1..k -> KindLists] :
            gene_data = GeneGroup(tool, kinds)
    /\ top_n \in 1..2
    /\ min_score_ratio \in (IF tool = "kofamscan" THEN {None, <<9, 10>>} ELSE {None})
    /\ ko_lines = <<>>
    /\ hits = <<>> /\ selected_indices = {}
    /\ IdleEval /\ IdleMain /\ IdleGroup

FormatKo ==
    /\ pc = "format"
    /\ ko_lines' = format_ko_output(tool, gene_data, top_n, min_score_ratio)
    /\ pc' = "formatted"
    /\ UNCHANGED <<tool, selVars, evalVars, mainVars, groupVars, gene_data>>

NextKo == FormatKo

SpecKo == InitKo /\ [][NextKo]_vars

\* C10: format_ko_output returns a strictly ascending sequence whose elements
\* are exactly the labels of the hits that determine_selected_indices selects,
\* over all genes.
C10_SortedUnion ==
    (pc = "formatted") =>
        /\ \A i, j \in 1..Len(ko_lines) : i < j => LessStr(ko_lines[i], ko_lines[j])
        /\ \A l \in {K1, K2, K10} :
            (l \in Range(ko_lines)) <=>
                \E g \in 1..Len(gene_data) : \E i \in 1..Len(gene_data[g].hits) :
                    /\ gene_data[g].hits[i].ko = l
                    /\ (i - 1) \in Selected(tool, gene_data[g].hits, top_n,
                                            min_score_ratio)
        /\ Range(ko_lines) \subseteq {K1, K2, K10}

\* two genes select the same label, a third label is selected once, another
\* hit's label is not selected: "K10" before "K2", each once
C10_Witness ==
    /\ pc = "formatted"
    /\ Len(gene_data) = 2
    /\ ko_lines = <<K10, K2>>
    /\ \A g \in 1..2 : gene_data[g].hits[1].ko = K10 /\ ~gene_data[g].hits[1].asterisk
    /\ \E g \in 1..2 : \E i \in 1..Len(gene_data[g].hits) :
            gene_data[g].hits[i].ko = K1

(***************************************************************************)
(* evaluate: short-circuit and monotonicity                                *)
(***************************************************************************)
\* the outcomes of all the children, in order
RECURSIVE FullEvaluate(_, _)
ChildOutcomes(subs, s) == [i \in 1..Len(subs) |-> FullEvaluate(subs[i], s)]

\* the full evaluation: every child of every composite is evaluated before
\* the combinator is applied; the first error among the children propagates
FullEvaluate(d, s) ==
    LET t == GetType(d)
    IN IF "id_list" \in DOMAIN d
       THEN IF t \in KnownTypes THEN Return(Holds(d, s)) ELSE Raise("leaf", t)
       ELSE LET subs == GetList(d)
                outs == ChildOutcomes(subs, s)
                bad == {i \in 1..Len(subs) : outs[i].raised}
                true == {i \in 1..Len(subs) : outs[i].value}
            IN IF t \notin KnownTypes THEN Raise("composite", t)
               ELSE IF bad # {}
                    THEN outs[CHOOSE i \in bad : \A j \in bad : i <= j]
               ELSE IF t = "all_of" THEN Return(true = 1..Len(subs))
               ELSE IF t = "one_of" THEN Return(true # {})
               ELSE Return(Cardinality(true) >= GetMin(d, Len(subs)))

\* C11: for every rule tree, trees with a nested unrecognized combinator
\* included, the outcome of evaluate (true, false or the error) is the
\* outcome of the full evaluation of every child of every composite.
C11_ShortCircuitUnobservable ==
    (pc = "evaluated") => ret = FullEvaluate(defn, ids)

\* C12: on a rule tree whose nodes all carry a recognized combinator, a
\* verdict true for a label set stays true for every larger label set.
C12_Monotone ==
    (pc = "evaluated" /\ WellFormed(defn) /\ ~ret.raised /\ ret.value) =>
        \A B \in SUBSET Labels : ids \subseteq B => evaluate(defn, B) = Return(TRUE)

\* a counting composite over two children is true for one label and is
\* evaluated to true again with a label added, while it is false without it
C12_Witness ==
    /\ pc = "evaluated"
    /\ WellFormed(defn)
    /\ "id_list" \notin DOMAIN defn
    /\ defn.type = "at_least"
    /\ Len(GetList(defn)) = 2
    /\ ids = {K1}
    /\ ret = Return(TRUE)
    /\ evaluate(defn, {}) = Return(FALSE)
    /\ evaluate(defn, {K1, K2}) = Return(TRUE)
====
